---- MODULE Spec2Model ----
(***************************************************************************)
(* Model of the maze walker (grinstead/minotaur): the maze generator       *)
(* makeMaze (randomized Kruskal over a union-find array) and the wall      *)
(* geometry compiler makeWallBlocks, as written in the fullest revision,   *)
(* and the page around them: the load handler running run() under          *)
(* runAndCleanOnError, the frames, the input handlers and render's draws.  *)
(*                                                                         *)
(* The source fixes MAZE_SIDE, END_HALLWAY_LENGTH, WALL_THICKNESS and      *)
(* DETAIL as file constants; here they are chosen in the initial state so  *)
(* that the statements made "for every side / thickness" can be checked.   *)
(***************************************************************************)
EXTENDS Integers, Sequences, FiniteSets

\* ------------------------------------------------------------------ bounds
\* Largest grid side tried (sides 0 .. MaxSide, even ones included).
MaxSide == 3
\* Largest exit hallway length tried (0 .. MaxHallway).
MaxHallway == 3

\* Shuffle orders tried: the candidate visited next is one of the first
\* MaxLookahead candidates not visited yet (1 = list order only).
MaxLookahead == 3

\* Wall thicknesses tried: the fractions n/d with 0 < n/d < 1/2 and
\* 3 <= d <= MaxThicknessDen; detail levels tried: 1 .. MaxDetail.
MaxThicknessDen == 5
MaxDetail == 2

\* Frames run after startup: game.frame goes up to MaxFrames + 1.
MaxFrames == 2
\* Mouse movement: player.facing is turned at most MaxTurn steps.
MaxTurn == 1

\* Client code of the cleanup library: at most MaxCalls calls of
\* runAndCleanOnError or allocate, nested at most MaxDepth deep, at most
\* MaxCleanups calls of onRelease and MaxReleases explicit calls of release.
MaxCalls == 3
MaxDepth == 2
MaxCleanups == 3
MaxReleases == 2

\* --------------------------------------------------------------- constants
BLOCKS_WEST == 1
BLOCKS_SOUTH == 2

VARIABLES
    MAZE_SIDE,            \* grid side
    END_HALLWAY_LENGTH,   \* rows of the straight exit hallway
    mazePc,               \* position inside makeMaze: "start", "shuffle", "done"
    unionFind,            \* [0..n-1 -> Int]: negative = -size of a root, else parent
    connectionsToCheck,   \* sequence of candidates: (index << 1) | isWest
    maze,                 \* [0..n-1 -> 0..3] connectivity masks
    todo,                 \* positions of connectionsToCheck not yet visited
    lastVisit,            \* history: the candidate visited last, the roots of
                          \* its two cells and its wall bit before the visit
    WT_NUM, WT_DEN,       \* WALL_THICKNESS = WT_NUM / WT_DEN
    DETAIL,               \* subdivisions per wall thickness
    wallPc,               \* position inside makeWallBlocks
    face,                 \* the face being emitted, 1 .. 8 in source order
    loopStep,             \* the loop variable x or y, in multiples of STEP
    index,                \* number of vertices emitted
    pointsLength,         \* points.length: numbers pushed so far
    surfaceStartIndex,    \* start of the surface being built (in 1/WT_DEN vertex)
    column, south, west,  \* the blocks: sequences of [offset, length]
                          \* (both in 1/WT_DEN vertex, so fractions are exact)
    emitted,              \* history: per finished face, its vertices and block
    runPc,                \* position of the load handler inside run()
    activeCleanupStack,   \* <<>> for null, <<stack>> for the active stack
    ACTIVE_RESOURCES,     \* [resource -> its cleanup stack]
    registered,           \* history: the cleanups passed to onRelease
    glCalls,              \* history: the calls made by cleanups and the console
                          \* calls of release and runCleanup, in order
    thrown,               \* the exception on its way out of run(), or NoError
    innerText,            \* document.body.innerText as set by the load handler
    game,                 \* the global game object, NoGame for null
    rafPending,           \* number of requestAnimationFrame(runFrame) callbacks
                          \* requested and not yet run
    activeKeys,           \* [key -> frame id] of the keys held down
    draws,                \* the drawBlock calls of the last render pass
    callStack,            \* the calls of _runAndCleanOnError not yet left, each
                          \* with its kind and its parentStack
    budget                \* calls, cleanups and releases made by client code

mazeVars == <<MAZE_SIDE, END_HALLWAY_LENGTH, mazePc, unionFind,
              connectionsToCheck, maze, todo, lastVisit>>

wallVars == <<WT_NUM, WT_DEN, DETAIL, wallPc, face, loopStep, index,
              pointsLength, surfaceStartIndex, column, south, west, emitted>>

runVars == <<runPc, activeCleanupStack, ACTIVE_RESOURCES, registered, glCalls,
             thrown, innerText, game, rafPending, activeKeys, draws>>

callVars == <<callStack, budget>>

vars == <<mazeVars, wallVars, runVars, callVars>>

\* ----------------------------------------------------------- bit helpers
\* value & bit # 0, for a single-bit mask
HasBit(value, bit) == (value \div bit) % 2 = 1

\* value & ~bit, for a single-bit mask
ClearBit(value, bit) == IF HasBit(value, bit) THEN value - bit ELSE value

\* value & mask for mask = 1 (keeps only bit 0); undefined & 1 = 0
AndOne(value) == value % 2

\* ---------------------------------------------------------------- makeMaze
HALF == MAZE_SIDE \div 2

Cells == 0 .. (MAZE_SIDE * MAZE_SIDE - 1)

\* (variant: the row limit of the hallway forgotten)
InFinalHallway_AllRows(i) ==
    LET x == i % MAZE_SIDE
    IN  x = HALF \/ x = HALF + 1

\* (variant: only the centre column is treated as hallway)
InFinalHallway_OnlyHalf(i) ==
    LET x == i % MAZE_SIDE
    IN  x = HALF /\ i < END_HALLWAY_LENGTH * MAZE_SIDE

\* the test that leaves the west candidate out
InFinalHallway(i) ==
    LET x == i % MAZE_SIDE
    IN  (x = HALF \/ x = HALF + 1) /\ i < END_HALLWAY_LENGTH * MAZE_SIDE

RECURSIVE BuildConnections(_, _)
BuildConnections(i, acc) ==
    IF i >= MAZE_SIDE * MAZE_SIDE THEN acc
    ELSE BuildConnections(i + 1,
            IF InFinalHallway(i) THEN Append(acc, 2 * i)
            ELSE acc \o <<2 * i, 2 * i + 1>>)

\* (variant: the gate is never opened)
OpenGate_None(m) == m

\* (variant: the wrong bit is kept, maze[HALF] &= 2)
OpenGate_KeepSouth(m) ==
    IF HALF \in DOMAIN m
    THEN [m EXCEPT ![HALF] = ClearBit(m[HALF], BLOCKS_WEST)]
    ELSE [j \in (DOMAIN m) \cup {HALF} |-> IF j = HALF THEN 0 ELSE m[j]]

\* maze[HALF] &= 1; on an empty array this creates element HALF = 0
OpenGate(m) ==
    IF HALF \in DOMAIN m
    THEN [m EXCEPT ![HALF] = AndOne(m[HALF])]
    ELSE [j \in (DOMAIN m) \cup {HALF} |-> IF j = HALF THEN 0 ELSE m[j]]

\* the root rootOf(cell) returns
RECURSIVE RootIndex(_, _)
RootIndex(uf, cell) ==
    IF uf[cell] < 0 THEN cell ELSE RootIndex(uf, uf[cell])

\* the cells rootOf(cell) visits and re-parents (all but the root)
RECURSIVE RootPath(_, _)
RootPath(uf, cell) ==
    IF uf[cell] < 0 THEN {} ELSE {cell} \cup RootPath(uf, uf[cell])

\* unionFind after rootOf(cell): every visited cell now points at the root
rootOf(uf, cell) ==
    LET r == RootIndex(uf, cell)
        p == RootPath(uf, cell)
    IN  [j \in DOMAIN uf |-> IF j \in p THEN r ELSE uf[j]]

\* (variant: the same-root test is dropped)
SameRoot_Never(a, b) == FALSE

\* "if they have the same root, nothing to do"
SameRoot(a, b) == a = b

\* (variant: on equal sizes the right operand's root becomes the child)
UnionRoots_TieToLeft(uf, a, b) ==
    LET aNegSize == uf[a]
        bNegSize == uf[b]
    IN  IF aNegSize <= bNegSize
        THEN [uf EXCEPT ![a] = aNegSize + bNegSize, ![b] = a]
        ELSE [uf EXCEPT ![a] = b, ![b] = aNegSize + bNegSize]

\* (variant: the surviving root keeps its old size)
UnionRoots_KeepSize(uf, a, b) ==
    LET aNegSize == uf[a]
        bNegSize == uf[b]
    IN  IF aNegSize < bNegSize
        THEN [uf EXCEPT ![b] = a]
        ELSE [uf EXCEPT ![a] = b]

\* the re-parenting of two distinct roots a, b
UnionRoots(uf, a, b) ==
    LET aNegSize == uf[a]
        bNegSize == uf[b]
    IN  IF aNegSize < bNegSize
        THEN [uf EXCEPT ![a] = aNegSize + bNegSize, ![b] = a]
        ELSE [uf EXCEPT ![a] = b, ![b] = aNegSize + bNegSize]

\* result and effect of unionIfDisconnected(aIndex, bIndex)
unionIfDisconnected(uf, aIndex, bIndex) ==
    LET uf1 == rootOf(uf, aIndex)
        a   == RootIndex(uf, aIndex)
        uf2 == rootOf(uf1, bIndex)
        b   == RootIndex(uf1, bIndex)
    IN  IF SameRoot(a, b)
        THEN [joined |-> FALSE, uf |-> uf2]
        ELSE [joined |-> TRUE, uf |-> UnionRoots(uf2, a, b)]

\* the body of the callback given to shuffledForEach
IsWestConnection(connection) == connection % 2 = 1

ConnectionIndex(connection) == connection \div 2

\* the cell on the other side of the wall, and the guard against the border
Neighbour(connection) ==
    IF IsWestConnection(connection)
    THEN ConnectionIndex(connection) - 1
    ELSE ConnectionIndex(connection) - MAZE_SIDE

\* (variant: isLeftmost tests index = 0 in place of index % MAZE_SIDE = 0)
AtBorder_FirstCellOnly(connection) ==
    IF IsWestConnection(connection)
    THEN ConnectionIndex(connection) = 0
    ELSE ConnectionIndex(connection) < MAZE_SIDE

AtBorder(connection) ==
    IF IsWestConnection(connection)
    THEN ConnectionIndex(connection) % MAZE_SIDE = 0
    ELSE ConnectionIndex(connection) < MAZE_SIDE

WallBit(connection) ==
    IF IsWestConnection(connection) THEN BLOCKS_WEST ELSE BLOCKS_SOUTH

\* makeMaze up to the shuffle: arrays, candidate list, the gate
MazeSetup ==
    /\ mazePc = "start"
    /\ unionFind' = [i \in Cells |-> -1]
    /\ connectionsToCheck' = BuildConnections(0, <<>>)
    /\ maze' = OpenGate([i \in Cells |-> 3])
    /\ todo' = 1 .. Len(connectionsToCheck')
    /\ mazePc' = "shuffle"
    /\ UNCHANGED <<MAZE_SIDE, END_HALLWAY_LENGTH, lastVisit>>
    /\ UNCHANGED wallVars
    /\ UNCHANGED <<runVars, callVars>>

\* shuffledForEach visits the candidates in the order of independent random
\* keys, so any not yet visited candidate can be the next one; the orders
\* explored are those that pick among the first MaxLookahead unvisited ones.
NextInShuffle(unvisited) ==
    {k \in unvisited : Cardinality({j \in unvisited : j < k}) < MaxLookahead}

ProcessConnection ==
    /\ mazePc = "shuffle"
    /\ \E k \in NextInShuffle(todo) :
          LET connection == connectionsToCheck[k]
              cell == ConnectionIndex(connection)
          IN  /\ todo' = todo \ {k}
              /\ lastVisit' =
                    [connection |-> connection,
                     called |-> ~AtBorder(connection),
                     a |-> IF AtBorder(connection) THEN -1
                           ELSE RootIndex(unionFind, cell),
                     b |-> IF AtBorder(connection) THEN -1
                           ELSE RootIndex(unionFind, Neighbour(connection)),
                     bitBefore |-> HasBit(maze[cell], WallBit(connection))]
              /\ IF AtBorder(connection)
                 THEN UNCHANGED <<unionFind, maze>>
                 ELSE LET u == unionIfDisconnected(unionFind, cell,
                                                   Neighbour(connection))
                      IN  /\ unionFind' = u.uf
                          /\ maze' = IF u.joined
                                     THEN [maze EXCEPT ![cell] =
                                             ClearBit(@, WallBit(connection))]
                                     ELSE maze
    /\ UNCHANGED <<MAZE_SIDE, END_HALLWAY_LENGTH, mazePc, connectionsToCheck>>
    /\ UNCHANGED wallVars
    /\ UNCHANGED <<runVars, callVars>>

\* return maze
MazeReturn ==
    /\ mazePc = "shuffle"
    /\ todo = {}
    /\ mazePc' = "done"
    /\ UNCHANGED <<MAZE_SIDE, END_HALLWAY_LENGTH, unionFind,
                   connectionsToCheck, maze, todo, lastVisit>>
    /\ UNCHANGED wallVars
    /\ UNCHANGED <<runVars, callVars>>

NoVisit == [connection |-> -1, called |-> FALSE, a |-> -1, b |-> -1,
            bitBefore |-> FALSE]

MazeStart ==
    /\ mazePc = "start"
    /\ unionFind = <<>>
    /\ connectionsToCheck = <<>>
    /\ maze = <<>>
    /\ todo = {}
    /\ lastVisit = NoVisit

\* ---------------------------------------------------------- makeWallBlocks
\* Lengths and offsets are kept in units of 1/WT_DEN vertex, so that
\* (index - surfaceStartIndex - 2) * WALL_THICKNESS is exact.  The loop
\* counts are those of exact arithmetic; they agree with IEEE doubles for
\* every thickness n/d with d <= 5 and detail <= 2 (1/4 and its halves are
\* exact in binary).
Thicknesses ==
    {t \in (1 .. MaxThicknessDen) \X (3 .. MaxThicknessDen) : 2 * t[1] < t[2]}

Whole(n) == n * WT_DEN

\* the eight faces in the order the source emits them
FaceName(f) ==
    CASE f = 1 -> "front of south"
      [] f = 2 -> "back of south"
      [] f = 3 -> "back of west"
      [] f = 4 -> "top of south"
      [] f = 5 -> "top of west"
      [] f = 6 -> "right of south"
      [] f = 7 -> "right of west"
      [] f = 8 -> "left of west"

LastFace == 8

\* the block finishSurface is called with
FaceBlock(f) == IF f \in {1, 2, 4, 6} THEN "south" ELSE "west"

\* (variant: only the faces of the south wall are portioned)
FacePortioned_SouthOnly(f) == f \in {1, 2, 4}

\* the faces followed by portionColumn()
FacePortioned(f) == f \in {1, 2, 4, 7, 8}

\* first value of the loop variable, in multiples of STEP = WALL_THICKNESS/DETAIL
FaceFirstStep(f) == IF f = 5 THEN DETAIL ELSE 0

\* the loop condition  x <= 1  or  x <= WALL_THICKNESS  at x = k * STEP
FaceInLoop(f, k) ==
    IF f \in {3, 6}
    THEN k <= DETAIL
    ELSE k * WT_NUM <= WT_DEN * DETAIL

\* (variant: surfaceStartIndex is not advanced, the remainder is the whole face)
PortionAdvance_Nothing(length) == 0

\* (variant: the two shared points are not subtracted)
PortionAdvance_KeepSeam(length) == length

\* "subtract 2 because they share two points"
PortionAdvance(length) == length - Whole(2)

\* const length = 2 + (index - surfaceStartIndex - 2) * WALL_THICKNESS
PortionLength(idx, start) ==
    Whole(2) + ((Whole(idx) - start - Whole(2)) * WT_NUM) \div WT_DEN

WallStart ==
    /\ wallPc = "loop"
    /\ face = 1
    /\ loopStep = 0
    /\ index = 0
    /\ pointsLength = 0
    /\ surfaceStartIndex = 0
    /\ column = <<>>
    /\ south = <<>>
    /\ west = <<>>
    /\ emitted = <<>>

\* one iteration of a face's for loop: two calls of vertex(), each pushing
\* x, y, z and the three numbers of the normal
EmitVertexPair ==
    /\ wallPc = "loop"
    /\ FaceInLoop(face, loopStep)
    /\ index' = index + 2
    /\ pointsLength' = pointsLength + 2 * 6
    /\ loopStep' = loopStep + 1
    /\ UNCHANGED <<WT_NUM, WT_DEN, DETAIL, wallPc, face, surfaceStartIndex,
                   column, south, west, emitted>>
    /\ UNCHANGED mazeVars
    /\ UNCHANGED <<runVars, callVars>>

\* the loop condition fails: go on to portionColumn() or finishSurface()
EndLoop ==
    /\ wallPc = "loop"
    /\ ~FaceInLoop(face, loopStep)
    /\ wallPc' = IF FacePortioned(face) THEN "portion" ELSE "finish"
    /\ UNCHANGED <<WT_NUM, WT_DEN, DETAIL, face, loopStep, index, pointsLength,
                   surfaceStartIndex, column, south, west, emitted>>
    /\ UNCHANGED mazeVars
    /\ UNCHANGED <<runVars, callVars>>

PortionColumn ==
    /\ wallPc = "portion"
    /\ LET length == PortionLength(index, surfaceStartIndex)
       IN  /\ column' = Append(column,
                          [offset |-> surfaceStartIndex, length |-> length])
           /\ surfaceStartIndex' = surfaceStartIndex + PortionAdvance(length)
    /\ wallPc' = "finish"
    /\ UNCHANGED <<WT_NUM, WT_DEN, DETAIL, face, loopStep, index, pointsLength,
                   south, west, emitted>>
    /\ UNCHANGED mazeVars
    /\ UNCHANGED <<runVars, callVars>>

\* finishSurface(block), then the next face's loop is entered (or the
\* blocks are returned after the last face)
FinishSurface ==
    /\ wallPc = "finish"
    /\ LET surface == [offset |-> surfaceStartIndex,
                       length |-> Whole(index) - surfaceStartIndex]
       IN  IF FaceBlock(face) = "south"
           THEN south' = Append(south, surface) /\ UNCHANGED west
           ELSE west' = Append(west, surface) /\ UNCHANGED south
    /\ surfaceStartIndex' = Whole(index)
    /\ emitted' = Append(emitted,
                    [face |-> face,
                     block |-> FaceBlock(face),
                     portioned |-> FacePortioned(face),
                     first |-> IF emitted = <<>> THEN 0
                               ELSE emitted[Len(emitted)].last,
                     last |-> index])
    /\ IF face = LastFace
       THEN wallPc' = "done" /\ UNCHANGED <<face, loopStep>>
       ELSE /\ wallPc' = "loop"
            /\ face' = face + 1
            /\ loopStep' = FaceFirstStep(face + 1)
    /\ UNCHANGED <<WT_NUM, WT_DEN, DETAIL, index, pointsLength, column>>
    /\ UNCHANGED mazeVars
    /\ UNCHANGED <<runVars, callVars>>

\* ------------------------------------------------------- resource cleanup
\* a cleanup closure: the gl call it makes, or the release of a resource
Cleanup(op, on) == [op |-> op, on |-> on]

NoError == [kind |-> "none", message |-> ""]

\* new Error(`Code ${errorCode}`)
E(errorCode) == [kind |-> "Error", message |-> errorCode]

\* String(error): an Error prints as "Error: <message>", a string as itself
StringOf(error) ==
    IF error.kind = "Error" THEN <<"Error: ", error.message>>
    ELSE <<error.message>>

\* (variant: release forgets the resource without running its cleanups)
release_ForgetOnly(resources, calls, resource) ==
    [resources |-> [r \in (DOMAIN resources) \ {resource} |-> resources[r]],
     calls |-> calls]

\* (variant: an exception of a cleanup ends the loop of runCleanup)
AfterCleanup_Escapes(clean, i) == IF clean.op = "throwing" THEN 0 ELSE i - 1

\* the try/catch around clean() in runCleanup: whatever clean() did, the
\* loop goes on with the entry before it
AfterCleanup(clean, i) == i - 1

\* runCleanup(cleanupCode[1 .. i]) from the last entry to the first. A
\* cleanup is a release closure, a call that returns, or one that throws
\* ("throwing": the call is made, its exception goes to console.error).
\* release(resource) looks the resource up; found, it is deleted and
\* then its stack is run; not found, console.warn is called
RECURSIVE runCleanup(_, _, _, _)
\* (variant: release leaves the resource in ACTIVE_RESOURCES)
release_KeepEntry(resources, calls, resource) ==
    IF resource \in DOMAIN resources
    THEN LET after ==
                 runCleanup([r \in (DOMAIN resources) \ {resource} |->
                                resources[r]],
                            calls, resources[resource],
                            Len(resources[resource]))
         IN  [resources |->
                  [r \in (DOMAIN after.resources) \cup {resource} |->
                      IF r = resource THEN resources[resource]
                      ELSE after.resources[r]],
              calls |-> after.calls]
    ELSE [resources |-> resources,
          calls |-> Append(calls, Cleanup("console.warn", resource))]

release(resources, calls, resource) ==
    IF resource \in DOMAIN resources
    THEN runCleanup([r \in (DOMAIN resources) \ {resource} |-> resources[r]],
                    calls, resources[resource], Len(resources[resource]))
    ELSE [resources |-> resources,
          calls |-> Append(calls, Cleanup("console.warn", resource))]

runCleanup(resources, calls, cleanupCode, i) ==
    IF i = 0 THEN [resources |-> resources, calls |-> calls]
    ELSE LET clean == cleanupCode[i]
             after ==
                 IF clean.op = "release"
                 THEN release(resources, calls, clean.on)
                 ELSE IF clean.op = "throwing"
                 THEN [resources |-> resources,
                       calls |-> Append(Append(calls, clean),
                                        Cleanup("console.error", clean.on))]
                 ELSE [resources |-> resources, calls |-> Append(calls, clean)]
         IN  runCleanup(after.resources, after.calls, cleanupCode,
                        AfterCleanup(clean, i))

\* onRelease(cleanup) inside run(): pushed on the active stack
onRelease(cleanup) ==
    /\ activeCleanupStack' = <<Append(activeCleanupStack[1], cleanup)>>
    /\ registered' = registered \cup {cleanup}

\* allocate(code) returning resource, code having registered cleanupStack:
\* the resource is entered and its release is pushed on the parent's stack
allocate(resource, cleanupStack) ==
    /\ ACTIVE_RESOURCES' =
          [r \in (DOMAIN ACTIVE_RESOURCES) \cup {resource} |->
              IF r \in DOMAIN ACTIVE_RESOURCES
              THEN IF r = resource
                   THEN ACTIVE_RESOURCES[r] \o cleanupStack
                   ELSE ACTIVE_RESOURCES[r]
              ELSE cleanupStack]
    /\ activeCleanupStack' =
          IF resource \in DOMAIN ACTIVE_RESOURCES \/ activeCleanupStack = <<>>
          THEN activeCleanupStack
          ELSE <<Append(activeCleanupStack[1], Cleanup("release", resource))>>
    /\ registered' = registered \cup {cleanupStack[j] : j \in DOMAIN cleanupStack}

\* the same statements of allocate after _runAndCleanOnError has put
\* parentStack back: the resources and the active stack they leave
Allocated(resources, parentStack, resource, cleanupStack) ==
    [resources |->
         [r \in (DOMAIN resources) \cup {resource} |->
             IF r \in DOMAIN resources
             THEN IF r = resource THEN resources[r] \o cleanupStack
                  ELSE resources[r]
             ELSE cleanupStack],
     active |->
         IF resource \in DOMAIN resources \/ parentStack = <<>>
         THEN parentStack
         ELSE <<Append(parentStack[1], Cleanup("release", resource))>>]

\* code() throws error inside allocate, having registered cleanupStack: the
\* finally of _runAndCleanOnError runs that stack, the error goes on
allocateThrows(error, cleanupStack) ==
    LET after == runCleanup(ACTIVE_RESOURCES, glCalls, cleanupStack,
                            Len(cleanupStack))
    IN  /\ ACTIVE_RESOURCES' = after.resources
        /\ glCalls' = after.calls
        /\ registered' = registered \cup {cleanupStack[j] : j \in DOMAIN cleanupStack}
        /\ thrown' = error
        /\ runPc' = "thrown"

\* -------------------------------------------------------------------- run
\* the statements of run() in order; "walls" and "maze" are the calls of
\* makeWallBlocks and makeMaze
RunStages ==
    <<"context", "vertexShader", "fragmentShader", "walls", "maze", "buffer",
      "program", "link", "game", "schedule", "return">>

StageAfter(stages, stage) ==
    stages[(CHOOSE j \in DOMAIN stages : stages[j] = stage) + 1]

\* (variant: run never calls makeMaze)
NextStage_SkipMaze(stage) ==
    StageAfter(<<"context", "vertexShader", "fragmentShader", "walls", "buffer",
                 "program", "link", "game", "schedule", "return">>, stage)

NextStage(stage) == StageAfter(RunStages, stage)

\* a handler is on the call stack: no other callback can start
HandlerRunning == runPc \notin {"idle", "returned", "failed"}

NoGame == [frame |-> 0]

\* what makeWallBlocks returns (rawData by its length)
WallBlocks ==
    [rawData |-> pointsLength, south |-> south, west |-> west,
     column |-> column]

Keys == {"w"}

\* (variant: two callbacks are requested)
requestAnimationFrame_Twice(pending) == pending + 2

\* requestAnimationFrame(runFrame): one more callback is outstanding
requestAnimationFrame(pending) == pending + 1

\* (variant: the finally forgets the parent stack)
RestoreStack_Null(parentStack) == <<>>

\* the finally of _runAndCleanOnError: activeCleanupStack = parentStack
RestoreStack(parentStack) == parentStack

\* (variant: the finally runs the stack whatever the outcome)
CleanOnExit_Always(success) == TRUE

\* the finally of _runAndCleanOnError: if (!success) runCleanup(cleanupStack)
CleanOnExit(success) == ~success

RunStart ==
    /\ runPc = "idle"
    /\ activeCleanupStack = <<>>
    /\ ACTIVE_RESOURCES = <<>>
    /\ registered = {}
    /\ glCalls = <<>>
    /\ thrown = NoError
    /\ innerText = <<>>
    /\ game = NoGame
    /\ rafPending = 0
    /\ activeKeys = <<>>
    /\ draws = <<>>

\* the load event: runAndCleanOnError(run) makes its stack the active one
Load ==
    /\ runPc = "idle"
    /\ activeCleanupStack' = <<<<>>>>
    /\ runPc' = "context"
    /\ UNCHANGED <<ACTIVE_RESOURCES, registered, glCalls, thrown, innerText,
                   game, rafPending, activeKeys, draws>>
    /\ UNCHANGED <<mazeVars, wallVars, callVars>>

\* canvas.getContext("webgl"), or the throw of a string
GetContext ==
    /\ runPc = "context"
    /\ \E gl \in BOOLEAN :
          IF gl THEN runPc' = NextStage(runPc) /\ UNCHANGED thrown
          ELSE /\ runPc' = "thrown"
               /\ thrown' = [kind |-> "string",
                             message |-> "Your browser needs to be updated"]
    /\ UNCHANGED <<activeCleanupStack, ACTIVE_RESOURCES, registered, glCalls,
                   innerText, game, rafPending, activeKeys, draws>>
    /\ UNCHANGED <<mazeVars, wallVars, callVars>>

\* SHADER(gl, ..)`..`: allocate around createShader, onRelease, compile
MakeShader ==
    /\ runPc \in {"vertexShader", "fragmentShader"}
    /\ \E outcome \in {"ok", "noShader", "noCompile"} :
          LET deleteShader == Cleanup("deleteShader", runPc)
          IN  CASE outcome = "ok" ->
                    /\ allocate(runPc, <<deleteShader>>)
                    /\ runPc' = NextStage(runPc)
                    /\ UNCHANGED <<glCalls, thrown>>
                [] outcome = "noShader" ->
                    /\ allocateThrows(E("Code 1001"), <<>>)
                    /\ UNCHANGED activeCleanupStack
                [] outcome = "noCompile" ->
                    /\ allocateThrows(E("Code 1002"), <<deleteShader>>)
                    /\ UNCHANGED activeCleanupStack
    /\ UNCHANGED <<innerText, game, rafPending, activeKeys, draws>>
    /\ UNCHANGED <<mazeVars, wallVars, callVars>>

\* makeWallBlocks() or makeMaze() has returned to run()
CallReturns ==
    /\ \/ runPc = "walls" /\ wallPc = "done"
       \/ runPc = "maze" /\ mazePc = "done"
    /\ runPc' = NextStage(runPc)
    /\ UNCHANGED <<activeCleanupStack, ACTIVE_RESOURCES, registered, glCalls,
                   thrown, innerText, game, rafPending, activeKeys, draws>>
    /\ UNCHANGED <<mazeVars, wallVars, callVars>>

\* gl.createBuffer() || E(1006), onRelease(deleteBuffer), bufferData
CreateBuffer ==
    /\ runPc = "buffer"
    /\ \E buffer \in BOOLEAN :
          IF buffer
          THEN /\ onRelease(Cleanup("deleteBuffer", "wallBlockBuffer"))
               /\ runPc' = NextStage(runPc)
               /\ UNCHANGED thrown
          ELSE /\ thrown' = E("Code 1006")
               /\ runPc' = "thrown"
               /\ UNCHANGED <<activeCleanupStack, registered>>
    /\ UNCHANGED <<ACTIVE_RESOURCES, glCalls, innerText, game, rafPending,
                   activeKeys, draws>>
    /\ UNCHANGED <<mazeVars, wallVars, callVars>>

\* PROGRAM(gl, vertexShader, fragmentShader)
MakeProgram ==
    /\ runPc = "program"
    /\ \E program \in BOOLEAN :
          IF program
          THEN /\ allocate("wallProgram",
                           <<Cleanup("detachShaders", "wallProgram")>>)
               /\ runPc' = NextStage(runPc)
               /\ UNCHANGED <<glCalls, thrown>>
          ELSE /\ allocateThrows(E("Code 1004"), <<>>)
               /\ UNCHANGED activeCleanupStack
    /\ UNCHANGED <<innerText, game, rafPending, activeKeys, draws>>
    /\ UNCHANGED <<mazeVars, wallVars, callVars>>

\* link(gl, wallProgram)
Link ==
    /\ runPc = "link"
    /\ \E linked \in BOOLEAN :
          IF linked THEN runPc' = NextStage(runPc) /\ UNCHANGED thrown
          ELSE runPc' = "thrown" /\ thrown' = E("Code 1003")
    /\ UNCHANGED <<activeCleanupStack, ACTIVE_RESOURCES, registered, glCalls,
                   innerText, game, rafPending, activeKeys, draws>>
    /\ UNCHANGED <<mazeVars, wallVars, callVars>>

\* game = { frame: 1, .., maze, .., renderInfo: { .., wallBlocks, .. } };
\* a missing uniform throws before the assignment
SetGame ==
    /\ runPc = "game"
    /\ \E uniforms \in {"ok", "Code 1005", "Code 1007"} :
          IF uniforms = "ok"
          THEN /\ game' = [frame |-> 1,
                           maze |-> maze,
                           player |-> [pos |-> 0, facing |-> 0, pitch |-> 0],
                           renderInfo |-> [wallBlocks |-> WallBlocks]]
               /\ runPc' = NextStage(runPc)
               /\ UNCHANGED thrown
          ELSE /\ thrown' = E(uniforms)
               /\ runPc' = "thrown"
               /\ UNCHANGED game
    /\ UNCHANGED <<activeCleanupStack, ACTIVE_RESOURCES, registered, glCalls,
                   innerText, rafPending, activeKeys, draws>>
    /\ UNCHANGED <<mazeVars, wallVars, callVars>>

\* requestAnimationFrame(runFrame), the last statement of run()
RequestFirstFrame ==
    /\ runPc = "schedule"
    /\ rafPending' = requestAnimationFrame(rafPending)
    /\ runPc' = NextStage(runPc)
    /\ UNCHANGED <<activeCleanupStack, ACTIVE_RESOURCES, registered, glCalls,
                   thrown, innerText, game, activeKeys, draws>>
    /\ UNCHANGED <<mazeVars, wallVars, callVars>>

\* run() returns: the finally restores the parent stack (null) and, success
\* being true, runs no cleanup; the load handler is done
RunReturns ==
    /\ runPc = "return"
    /\ activeCleanupStack' = RestoreStack(<<>>)
    /\ IF CleanOnExit(TRUE)
       THEN LET after == runCleanup(ACTIVE_RESOURCES, glCalls,
                                    activeCleanupStack[1],
                                    Len(activeCleanupStack[1]))
            IN  /\ ACTIVE_RESOURCES' = after.resources
                /\ glCalls' = after.calls
       ELSE UNCHANGED <<ACTIVE_RESOURCES, glCalls>>
    /\ runPc' = "returned"
    /\ UNCHANGED <<registered, thrown, innerText, game, rafPending,
                   activeKeys, draws>>
    /\ UNCHANGED <<mazeVars, wallVars, callVars>>

\* run() threw: the finally restores the parent stack (null) and runs the
\* stack of the call; the exception leaves runAndCleanOnError
Unwind ==
    /\ runPc = "thrown"
    /\ IF CleanOnExit(FALSE)
       THEN LET after == runCleanup(ACTIVE_RESOURCES, glCalls,
                                    activeCleanupStack[1],
                                    Len(activeCleanupStack[1]))
            IN  /\ ACTIVE_RESOURCES' = after.resources
                /\ glCalls' = after.calls
       ELSE UNCHANGED <<ACTIVE_RESOURCES, glCalls>>
    /\ activeCleanupStack' = RestoreStack(<<>>)
    /\ runPc' = "propagated"
    /\ UNCHANGED <<registered, thrown, innerText, game, rafPending,
                   activeKeys, draws>>
    /\ UNCHANGED <<mazeVars, wallVars, callVars>>

\* the catch of the load handler
ShowError ==
    /\ runPc = "propagated"
    /\ innerText' = StringOf(thrown)
    /\ runPc' = "failed"
    /\ UNCHANGED <<activeCleanupStack, ACTIVE_RESOURCES, registered, glCalls,
                   thrown, game, rafPending, activeKeys, draws>>
    /\ UNCHANGED <<mazeVars, wallVars, callVars>>

\* ----------------------------------------------------------------- render
DrawBlock(x, y, block) == <<[x |-> x, y |-> y, block |-> block]>>

\* (variant: the south wall is drawn on the west bit)
CellDraws_SouthOnWestBit(m, cell) ==
    LET x == (cell % MAZE_SIDE) - HALF
        y == (cell \div MAZE_SIDE) - HALF
    IN  (IF HasBit(m[cell], BLOCKS_WEST) THEN DrawBlock(x, y, "west") ELSE <<>>)
        \o DrawBlock(x, y, "column")
        \o (IF HasBit(m[cell], BLOCKS_WEST) THEN DrawBlock(x, y, "south")
            ELSE <<>>)

\* the body of maze.forEach for one cell
CellDraws(m, cell) ==
    LET x == (cell % MAZE_SIDE) - HALF
        y == (cell \div MAZE_SIDE) - HALF
    IN  (IF HasBit(m[cell], BLOCKS_WEST) THEN DrawBlock(x, y, "west") ELSE <<>>)
        \o DrawBlock(x, y, "column")
        \o (IF HasBit(m[cell], BLOCKS_SOUTH) THEN DrawBlock(x, y, "south")
            ELSE <<>>)

RECURSIVE MazeDraws(_, _)
MazeDraws(m, cell) ==
    IF cell \in DOMAIN m THEN CellDraws(m, cell) \o MazeDraws(m, cell + 1)
    ELSE <<>>

\* (variant: the ring stops one position short)
RingLast_Short == HALF - 1

\* the last d of the loop over the north and east walls
RingLast == HALF

\* the body of the loop over the north and east walls, from d on
RECURSIVE RingDraws(_)
RingDraws(d) ==
    IF d <= RingLast
    THEN DrawBlock(d, HALF + 1, "south") \o DrawBlock(d, HALF + 1, "column")
         \o DrawBlock(HALF + 1, d, "west") \o DrawBlock(HALF + 1, d, "column")
         \o RingDraws(d + 1)
    ELSE <<>>

\* the drawBlock calls of render(info), in order
Render(info) ==
    MazeDraws(info.maze, 0) \o RingDraws(0 - HALF)
        \o DrawBlock(HALF + 1, HALF + 1, "column")

\* ------------------------------------------------------ frames and events
pressed(key) == IF key \in DOMAIN activeKeys THEN 1 ELSE 0

\* (variant: a frame knocks the west wall of the first cell down)
FrameUpdate_OpensWall(g, dt) ==
    [g EXCEPT !.frame = @ + 1,
              !.maze = [@ EXCEPT ![0] = ClearBit(@, BLOCKS_WEST)]]

\* what runFrame does to game before it renders, dt being the clamped time
\* step (the position is kept as the distance walked)
FrameUpdate(g, dt) ==
    LET forward == pressed("w") - pressed("s")
        strafing == pressed("d") - pressed("a")
    IN  [g EXCEPT !.frame = @ + 1,
                  !.player.pos =
                      IF forward # 0 \/ strafing # 0 THEN @ + dt ELSE @]

runFrame ==
    /\ rafPending > 0
    /\ ~HandlerRunning
    /\ IF game = NoGame
       THEN rafPending' = rafPending - 1 /\ UNCHANGED <<game, draws>>
       ELSE /\ game.frame <= MaxFrames
            /\ \E dt \in 0 .. 1 :
                  /\ game' = FrameUpdate(game, dt)
                  /\ draws' = Render(game')
            /\ rafPending' = requestAnimationFrame(rafPending - 1)
    /\ UNCHANGED <<runPc, activeCleanupStack, ACTIVE_RESOURCES, registered,
                   glCalls, thrown, innerText, activeKeys>>
    /\ UNCHANGED <<mazeVars, wallVars, callVars>>

\* the mousemove handler; locked is document.pointerLockElement
mousemove ==
    /\ ~HandlerRunning
    /\ \E locked \in BOOLEAN, movementX \in 0 .. 1, movementY \in 0 .. 1 :
          IF game = NoGame \/ ~locked THEN UNCHANGED game
          ELSE /\ game.player.facing + movementX <= MaxTurn
               /\ game' = [game EXCEPT
                     !.player.facing = @ + movementX,
                     !.player.pitch =
                         LET moved == @ - movementY
                         IN  IF moved < -1 THEN -1
                             ELSE IF moved > 1 THEN 1 ELSE moved]
    /\ UNCHANGED <<runPc, activeCleanupStack, ACTIVE_RESOURCES, registered,
                   glCalls, thrown, innerText, rafPending, activeKeys, draws>>
    /\ UNCHANGED <<mazeVars, wallVars, callVars>>

keydown ==
    /\ ~HandlerRunning
    /\ \E key \in Keys :
          activeKeys' =
              [k \in (DOMAIN activeKeys) \cup {key} |->
                  IF k = key
                  THEN IF game = NoGame THEN -1 ELSE game.frame
                  ELSE activeKeys[k]]
    /\ UNCHANGED <<runPc, activeCleanupStack, ACTIVE_RESOURCES, registered,
                   glCalls, thrown, innerText, game, rafPending, draws>>
    /\ UNCHANGED <<mazeVars, wallVars, callVars>>

keyup ==
    /\ ~HandlerRunning
    /\ \E key \in Keys :
          activeKeys' = [k \in (DOMAIN activeKeys) \ {key} |-> activeKeys[k]]
    /\ UNCHANGED <<runPc, activeCleanupStack, ACTIVE_RESOURCES, registered,
                   glCalls, thrown, innerText, game, rafPending, draws>>
    /\ UNCHANGED <<mazeVars, wallVars, callVars>>

\* ---------------------------------------------------------- specifications
\* ------------------------------------------- client code of the library
\* The cleanup library under any client: code that calls runAndCleanOnError,
\* allocate, onRelease and release in any order and nesting, and returns or
\* throws out of each call.
Resources == {"a", "b"}

Kinds == {"runAndCleanOnError", "allocate"}

CallStart ==
    /\ callStack = <<>>
    /\ budget = [calls |-> 0, cleanups |-> 0, releases |-> 0]

\* what the finally of _runAndCleanOnError leaves of the resources and the
\* call log when code() has ended with or without success
Exit(success) ==
    IF CleanOnExit(success)
    THEN runCleanup(ACTIVE_RESOURCES, glCalls, activeCleanupStack[1],
                    Len(activeCleanupStack[1]))
    ELSE [resources |-> ACTIVE_RESOURCES, calls |-> glCalls]

\* runAndCleanOnError(code) or allocate(code) is called: _runAndCleanOnError
\* keeps the active stack as parentStack and makes a new one active
CallEnters ==
    /\ thrown = NoError
    /\ Len(callStack) < MaxDepth
    /\ budget.calls < MaxCalls
    /\ \E kind \in Kinds :
          callStack' = Append(callStack, [kind |-> kind,
                                          parentStack |-> activeCleanupStack])
    /\ activeCleanupStack' = <<<<>>>>
    /\ budget' = [budget EXCEPT !.calls = @ + 1]
    /\ UNCHANGED <<runPc, ACTIVE_RESOURCES, registered, glCalls, thrown,
                   innerText, game, rafPending, activeKeys, draws>>
    /\ UNCHANGED <<mazeVars, wallVars>>

\* client code calls onRelease(cleanup), with a cleanup that will return or
\* one that will throw: pushed on the active stack, or the throw of
\* 'onRelease called outside of allocation' when there is none
CodeCallsOnRelease ==
    /\ thrown = NoError
    /\ budget.cleanups < MaxCleanups
    /\ \E op \in {"cleanup", "throwing"} :
          IF activeCleanupStack # <<>>
          THEN onRelease(Cleanup(op, budget.cleanups)) /\ UNCHANGED thrown
          ELSE /\ thrown' = E("onRelease called outside of allocation")
               /\ UNCHANGED <<activeCleanupStack, registered>>
    /\ budget' = [budget EXCEPT !.cleanups = @ + 1]
    /\ UNCHANGED <<runPc, ACTIVE_RESOURCES, glCalls, innerText, game,
                   rafPending, activeKeys, draws, callStack>>
    /\ UNCHANGED <<mazeVars, wallVars>>

\* code() returns inside the innermost call: the finally puts parentStack
\* back; allocate then enters the returned resource
CodeReturns ==
    /\ thrown = NoError
    /\ callStack # <<>>
    /\ LET top == callStack[Len(callStack)]
           after == Exit(TRUE)
       IN  /\ glCalls' = after.calls
           /\ IF top.kind = "allocate"
              THEN \E resource \in Resources :
                      LET entered == Allocated(after.resources,
                                               RestoreStack(top.parentStack),
                                               resource,
                                               activeCleanupStack[1])
                      IN  /\ ACTIVE_RESOURCES' = entered.resources
                          /\ activeCleanupStack' = entered.active
              ELSE /\ ACTIVE_RESOURCES' = after.resources
                   /\ activeCleanupStack' = RestoreStack(top.parentStack)
    /\ callStack' = SubSeq(callStack, 1, Len(callStack) - 1)
    /\ UNCHANGED <<runPc, registered, thrown, innerText, game, rafPending,
                   activeKeys, draws, budget>>
    /\ UNCHANGED <<mazeVars, wallVars>>

\* code() throws inside the innermost call, or an exception on its way out
\* reaches it: the finally puts parentStack back and runs the stack of the
\* call; the exception goes on
CodeThrows ==
    /\ callStack # <<>>
    /\ LET top == callStack[Len(callStack)]
           after == Exit(FALSE)
       IN  /\ glCalls' = after.calls
           /\ ACTIVE_RESOURCES' = after.resources
           /\ activeCleanupStack' = RestoreStack(top.parentStack)
    /\ thrown' = IF thrown = NoError THEN E("code") ELSE thrown
    /\ callStack' = SubSeq(callStack, 1, Len(callStack) - 1)
    /\ UNCHANGED <<runPc, registered, innerText, game, rafPending,
                   activeKeys, draws, budget>>
    /\ UNCHANGED <<mazeVars, wallVars>>

\* client code catches the exception on its way out
CodeCatches ==
    /\ thrown # NoError
    /\ thrown' = NoError
    /\ UNCHANGED <<runPc, activeCleanupStack, ACTIVE_RESOURCES, registered,
                   glCalls, innerText, game, rafPending, activeKeys, draws>>
    /\ UNCHANGED <<mazeVars, wallVars, callVars>>

\* client code calls release(resource)
CodeCallsRelease ==
    /\ thrown = NoError
    /\ budget.releases < MaxReleases
    /\ \E resource \in Resources :
          LET after == release(ACTIVE_RESOURCES, glCalls, resource)
          IN  /\ ACTIVE_RESOURCES' = after.resources
              /\ glCalls' = after.calls
    /\ budget' = [budget EXCEPT !.releases = @ + 1]
    /\ UNCHANGED <<runPc, activeCleanupStack, registered, thrown, innerText,
                   game, rafPending, activeKeys, draws, callStack>>
    /\ UNCHANGED <<mazeVars, wallVars>>

\* makeMaze for every side, hallway length and explored shuffle order
\* (makeWallBlocks not running, at the source's thickness and detail)
Init ==
    /\ MAZE_SIDE \in 0 .. MaxSide
    /\ END_HALLWAY_LENGTH \in 0 .. MaxHallway
    /\ MazeStart
    /\ WT_NUM = 1 /\ WT_DEN = 4 /\ DETAIL = 1
    /\ WallStart
    /\ RunStart
    /\ CallStart

Next ==
    \/ MazeSetup
    \/ ProcessConnection
    \/ MazeReturn

Spec == Init /\ [][Next]_vars

\* makeWallBlocks for every explored thickness and detail level
\* (makeMaze not running)
InitWalls ==
    /\ \E t \in Thicknesses : WT_NUM = t[1] /\ WT_DEN = t[2]
    /\ DETAIL \in 1 .. MaxDetail
    /\ WallStart
    /\ MAZE_SIDE = 3 /\ END_HALLWAY_LENGTH = 1
    /\ RunStart
    /\ CallStart
    /\ MazeStart

NextWalls ==
    \/ EmitVertexPair
    \/ EndLoop
    \/ PortionColumn
    \/ FinishSurface

SpecWalls == InitWalls /\ [][NextWalls]_vars

\* the page from before the load event on, at the source's thickness and
\* detail, for every odd side (MAZE_SIDE "must be odd", it is 41 in the
\* source) up to MaxSide: the load handler runs run() statement
\* by statement (makeWallBlocks and makeMaze inside it), any gl call that can
\* fail does either; frames and input events come when no handler runs
InitRun ==
    /\ MAZE_SIDE \in {side \in 1 .. MaxSide : side % 2 = 1}
    /\ END_HALLWAY_LENGTH = 1
    /\ MazeStart
    /\ WT_NUM = 1 /\ WT_DEN = 4 /\ DETAIL = 1
    /\ WallStart
    /\ RunStart
    /\ CallStart

NextRun ==
    \/ Load
    \/ GetContext
    \/ MakeShader
    \/ runPc = "walls" /\ NextWalls
    \/ runPc = "maze" /\ Next
    \/ CallReturns
    \/ CreateBuffer
    \/ MakeProgram
    \/ Link
    \/ SetGame
    \/ RequestFirstFrame
    \/ RunReturns
    \/ Unwind
    \/ ShowError
    \/ runFrame
    \/ mousemove
    \/ keydown
    \/ keyup

SpecRun == InitRun /\ [][NextRun]_vars

\* the cleanup library under any client code (nothing else running)
InitRaii ==
    /\ MAZE_SIDE = 3 /\ END_HALLWAY_LENGTH = 1
    /\ MazeStart
    /\ WT_NUM = 1 /\ WT_DEN = 4 /\ DETAIL = 1
    /\ WallStart
    /\ RunStart
    /\ CallStart

NextRaii ==
    \/ CallEnters
    \/ CodeCallsOnRelease
    \/ CodeReturns
    \/ CodeThrows
    \/ CodeCatches
    \/ CodeCallsRelease

SpecRaii == InitRaii /\ [][NextRaii]_vars

\* ================================================================ the maze
\* The maze as a graph: cells are nodes, an edge joins a cell and its west
\* (south) neighbour inside the grid when the cell's west (south) bit is clear.
MazeReturned == mazePc = "done"

MazeEdges ==
    {<<i, i - 1>> : i \in {c \in Cells : /\ c % MAZE_SIDE # 0
                                        /\ ~HasBit(maze[c], BLOCKS_WEST)}}
    \cup
    {<<i, i - MAZE_SIDE>> : i \in {c \in Cells : /\ c >= MAZE_SIDE
                                                /\ ~HasBit(maze[c], BLOCKS_SOUTH)}}

RECURSIVE ReachFrom(_, _)
ReachFrom(S, edges) ==
    LET T == S \cup {e[1] : e \in {f \in edges : f[2] \in S}}
                \cup {e[2] : e \in {f \in edges : f[1] \in S}}
    IN  IF T = S THEN S ELSE ReachFrom(T, edges)

MazeConnected == Cells = {} \/ ReachFrom({0}, MazeEdges) = Cells

\* repeatedly remove the edges that end in a cell of degree 1: what is left
\* is empty exactly when the graph has no cycle
RECURSIVE StripLeaves(_)
StripLeaves(edges) ==
    LET Degree(v) == Cardinality({e \in edges : e[1] = v \/ e[2] = v})
        leaves == {e \in edges : Degree(e[1]) = 1 \/ Degree(e[2]) = 1}
    IN  IF leaves = {} THEN edges ELSE StripLeaves(edges \ leaves)

MazeAcyclic == StripLeaves(MazeEdges) = {}

ClearedBits ==
    Cardinality({c \in (DOMAIN maze) \X {BLOCKS_WEST, BLOCKS_SOUTH} :
                    ~HasBit(maze[c[1]], c[2])})

ValidSide == MAZE_SIDE >= 3 /\ MAZE_SIDE % 2 = 1

\* C1 (as stated): for every odd side >= 3, every hallway length >= 0 and every
\* shuffle order, the returned maze is connected.
C1_ConnectedAnyHallway ==
    (MazeReturned /\ ValidSide) => MazeConnected

\* C1 (amended): for every odd side >= 3, every hallway length L with
\* 0 <= L < side and every shuffle order, the returned maze is connected.
C1_ConnectedShortHallway ==
    (MazeReturned /\ ValidSide /\ END_HALLWAY_LENGTH < MAZE_SIDE) => MazeConnected

C1_Witness ==
    /\ MazeReturned /\ MAZE_SIDE = 3 /\ END_HALLWAY_LENGTH = 2
    /\ Cardinality(MazeEdges) = 8

\* the visit recorded in lastVisit cleared the wall bit of its candidate
OpenedByLastVisit ==
    /\ lastVisit.connection >= 0
    /\ lastVisit.bitBefore
    /\ ~HasBit(maze[lastVisit.connection \div 2],
               IF lastVisit.connection % 2 = 1 THEN BLOCKS_WEST ELSE BLOCKS_SOUTH)

\* C2: at every point of generation and in the returned maze the graph of
\* opened walls is acyclic, and the wall bit of the candidate visited last was
\* cleared by the visit only if unionIfDisconnected was called on two cells
\* whose roots differed just before.
C2_Acyclic ==
    mazePc # "start" =>
        /\ MazeAcyclic
        /\ OpenedByLastVisit => (lastVisit.called /\ lastVisit.a # lastVisit.b)

\* a returned 3x3 maze in which at least one candidate was discarded
C2_Witness ==
    /\ MazeReturned /\ MAZE_SIDE = 3
    /\ Cardinality(MazeEdges) = 8
    /\ Len(connectionsToCheck) = 18
    /\ lastVisit.called /\ lastVisit.a = lastVisit.b

\* C3 (as stated): in the returned array exactly N^2 - 1 wall bits are cleared.
C3_ClearedIsEdges ==
    (MazeReturned /\ ValidSide) => ClearedBits = MAZE_SIDE * MAZE_SIDE - 1

\* C3 (amended): for side N >= 1 and hallway length < N the returned array has
\* exactly N^2 cleared bits: N^2 - 1 walls between cells plus the gate.
C3_ClearedIsEdgesPlusGate ==
    (MazeReturned /\ MAZE_SIDE >= 1 /\ END_HALLWAY_LENGTH < MAZE_SIDE) =>
        /\ ClearedBits = MAZE_SIDE * MAZE_SIDE
        /\ Cardinality(MazeEdges) = MAZE_SIDE * MAZE_SIDE - 1
        /\ ~HasBit(maze[HALF], BLOCKS_SOUTH)

C3_Witness ==
    MazeReturned /\ MAZE_SIDE = 3 /\ END_HALLWAY_LENGTH = 1 /\ ClearedBits = 9

\* C4: for every side, hallway length and shuffle order the returned maze has
\* the south bit of cell HALF clear.
C4_GateOpen ==
    MazeReturned => (HALF \in DOMAIN maze /\ ~HasBit(maze[HALF], BLOCKS_SOUTH))

\* the gate cell was merged with the cell above it, and its mask is returned
C4_Witness ==
    /\ MazeReturned /\ MAZE_SIDE = 3
    /\ ~HasBit(maze[HALF + MAZE_SIDE], BLOCKS_SOUTH)
    /\ ~HasBit(maze[HALF], BLOCKS_SOUTH)

\* the cells of the exit hallway region, as the claim words it
C5_HallwayCell(i) ==
    /\ i % MAZE_SIDE \in {HALF, HALF + 1}
    /\ i < END_HALLWAY_LENGTH * MAZE_SIDE

\* C5: a cell in column HALF or HALF+1 with index < hallway length * side has
\* no west candidate, and its west bit is set in every state up to the return.
C5_HallwayWestKept ==
    mazePc # "start" =>
        \A i \in Cells :
            C5_HallwayCell(i) =>
                /\ \A k \in 1 .. Len(connectionsToCheck) :
                        connectionsToCheck[k] # 2 * i + 1
                /\ HasBit(maze[i], BLOCKS_WEST)

C5_Witness ==
    /\ MazeReturned /\ MAZE_SIDE = 3 /\ END_HALLWAY_LENGTH = 2
    /\ C5_HallwayCell(5) /\ HasBit(maze[5], BLOCKS_WEST)
    /\ ~HasBit(maze[8], BLOCKS_WEST)

\* C7 (as stated): generate fails, before any maze is returned, whenever side
\* is even or less than 1; so a maze is returned only for an odd side >= 1.
C7_RejectsBadSide ==
    MazeReturned => (MAZE_SIDE >= 1 /\ MAZE_SIDE % 2 = 1)

\* C8 (as stated): for side 1, generate fails or returns the array [0].
C8_SingleCellAllOpen ==
    (MazeReturned /\ MAZE_SIDE = 1) => (DOMAIN maze = {0} /\ maze[0] = 0)

\* C8 (amended): for side 1 and any hallway length, generate returns the
\* one-element array [1]: south bit cleared by the gate, west bit still set.
C8_SingleCellGateOnly ==
    (MazeReturned /\ MAZE_SIDE = 1) =>
        /\ DOMAIN maze = {0}
        /\ ~HasBit(maze[0], BLOCKS_SOUTH)
        /\ HasBit(maze[0], BLOCKS_WEST)

C8_Witness ==
    /\ MazeReturned /\ MAZE_SIDE = 1 /\ END_HALLWAY_LENGTH = 0
    /\ Len(connectionsToCheck) = 2

\* ========================================================= the wall blocks
WallsReturned == wallPc = "done"

SourceWalls == WT_NUM = 1 /\ WT_DEN = 4 /\ DETAIL = 1

BlockNamed(name) == IF name = "south" THEN south ELSE west

\* the range finishSurface pushed for the k-th emitted face
SurfaceOfFace(k) ==
    BlockNamed(emitted[k].block)[
        Cardinality({i \in 1 .. k : emitted[i].block = emitted[k].block})]

\* the faces the claims name as carved: front, back and top of the south
\* wall, right and left of the west wall
CarvedFaces == {1, 2, 4, 7, 8}

\* the range portionColumn pushed for the k-th emitted face (k carved)
ColumnOfFace(k) == column[Cardinality({i \in 1 .. k : i \in CarvedFaces})]

VerticesOfFace(k) == emitted[k].last - emitted[k].first

\* C9 (as stated): at thickness 1/4 and detail 1, for every carved face the
\* column length plus the remainder length equals the vertices of the face.
C9_ColumnPlusRemainderIsFace ==
    (WallsReturned /\ SourceWalls) =>
        \A k \in CarvedFaces :
            ColumnOfFace(k).length + SurfaceOfFace(k).length
                = Whole(VerticesOfFace(k))

\* C9 (amended): at thickness 1/4 and detail 1, for every carved face the
\* column length plus the remainder length equals the vertices of the face
\* plus 2, the two seam vertices being counted in both ranges.
C9_ColumnPlusRemainderIsFacePlusSeam ==
    (WallsReturned /\ SourceWalls) =>
        /\ Len(column) = Cardinality(CarvedFaces)
        /\ \A k \in CarvedFaces :
              ColumnOfFace(k).length + SurfaceOfFace(k).length
                  = Whole(VerticesOfFace(k) + 2)

C9_Witness ==
    /\ WallsReturned /\ SourceWalls
    /\ VerticesOfFace(1) = 10
    /\ ColumnOfFace(1).length = Whole(4)
    /\ SurfaceOfFace(1).length = Whole(8)

\* the faces whose ranges make up the south block, in order
SouthFaces == SelectSeq(emitted, LAMBDA e : e.block = "south")

SouthInOrder ==
    /\ Len(south) = 4
    /\ Len(SouthFaces) = 4
    /\ [j \in 1 .. 4 |-> FaceName(SouthFaces[j].face)] =
          <<"front of south", "back of south", "top of south", "right of south">>
    /\ \A j \in 1 .. 4 :
          south[j].offset + south[j].length = Whole(SouthFaces[j].last)

ColumnsAtLeastTwo ==
    \A j \in 1 .. Len(column) : column[j].length >= Whole(2)

\* C10 (as stated): at thickness 1/4 and detail 1 the south group has the 4
\* ranges front, back, top, right end-cap in that order, and the column group
\* has as many ranges as portioned south faces, 3, each of length >= 2.
C10_ThreeColumns ==
    (WallsReturned /\ SourceWalls) =>
        /\ SouthInOrder
        /\ Len(column) = 3
        /\ ColumnsAtLeastTwo

\* C10 (amended): at thickness 1/4 and detail 1 the south group has the 4
\* ranges front, back, top, right end-cap in that order, and the column group
\* has one range per portioned face of either wall, 5 (3 of the south wall
\* and 2 of the west wall), each of length >= 2.
C10_FiveColumns ==
    (WallsReturned /\ SourceWalls) =>
        /\ SouthInOrder
        /\ Len(column) = 5
        /\ ColumnsAtLeastTwo

C10_Witness ==
    /\ WallsReturned /\ SourceWalls
    /\ Len(south) = 4
    /\ Len(column) = 5
    /\ column[5].length = Whole(4)

\* ================================================= one candidate, one union
\* the step visits a candidate (the one lastVisit records after the step)
VisitStep == mazePc = "shuffle" /\ todo' # todo

VisitedCell == lastVisit'.connection \div 2

VisitedIsWest == lastVisit'.connection % 2 = 1

VisitedBit == IF VisitedIsWest THEN BLOCKS_WEST ELSE BLOCKS_SOUTH

\* the neighbour as the claim words it: index-1 for west, index-side for south
VisitedNeighbour ==
    IF VisitedIsWest THEN VisitedCell - 1 ELSE VisitedCell - MAZE_SIDE

\* the candidate's wall lies on the outer border: no cell is behind it
VisitedAtBorder ==
    IF VisitedIsWest THEN VisitedCell % MAZE_SIDE = 0
    ELSE VisitedCell < MAZE_SIDE

SameSet(uf, i, j) == RootIndex(uf, i) = RootIndex(uf, j)

PartitionKept ==
    \A i, j \in Cells : SameSet(unionFind', i, j) <=> SameSet(unionFind, i, j)

\* the sets of cells p and q have become one set, all others are as before
PartitionMerged(p, q) ==
    \A i, j \in Cells :
        SameSet(unionFind', i, j) <=>
            \/ SameSet(unionFind, i, j)
            \/ /\ SameSet(unionFind, i, p) \/ SameSet(unionFind, i, q)
               /\ SameSet(unionFind, j, p) \/ SameSet(unionFind, j, q)

OnlyVisitedBitCleared ==
    maze' = [maze EXCEPT ![VisitedCell] = ClearBit(@, VisitedBit)]

VisitEffect ==
    IF SameSet(unionFind, VisitedCell, VisitedNeighbour)
    THEN maze' = maze /\ PartitionKept
    ELSE /\ PartitionMerged(VisitedCell, VisitedNeighbour)
         /\ OnlyVisitedBitCleared
         /\ HasBit(maze[VisitedCell], VisitedBit)
         /\ ~HasBit(maze'[VisitedCell], VisitedBit)

\* C17 (as stated): visiting a candidate whose cell index-1 (west) or
\* index-side (south) is a cell: roots differ => the sets are merged and exactly
\* the candidate's wall bit is cleared; roots equal => maze and partition kept.
C17_VisitAnyCandidate ==
    [][(VisitStep /\ VisitedNeighbour \in Cells) => VisitEffect]_vars

\* C17 (amended): visiting a candidate whose wall is not on the border (not
\* column 0 for west, not row 0 for south): roots differ => the sets are merged
\* and exactly the candidate's wall bit is cleared; roots equal => maze and
\* partition kept.  A border candidate changes neither maze nor partition.
C17_VisitInnerCandidate ==
    [][VisitStep =>
        IF VisitedAtBorder THEN maze' = maze /\ PartitionKept
        ELSE VisitEffect]_vars

\* a west candidate has just merged two sets
C17_Witness ==
    /\ mazePc = "shuffle" /\ MAZE_SIDE = 3
    /\ lastVisit.connection % 2 = 1
    /\ lastVisit.called /\ lastVisit.a # lastVisit.b
    /\ ~HasBit(maze[lastVisit.connection \div 2], BLOCKS_WEST)

\* C18: a union of two different roots a (of the candidate's cell, the left
\* operand) and b: the root of the strictly smaller set becomes the child of
\* the other root; on equal sizes a becomes the child of b; the surviving
\* root's entry is the negated sum of the two sizes.
UnionEffect ==
    LET a == RootIndex(unionFind, VisitedCell)
        b == RootIndex(unionFind, VisitedNeighbour)
        sizeA == 0 - unionFind[a]
        sizeB == 0 - unionFind[b]
    IN  a # b =>
            /\ sizeA > sizeB => (unionFind'[b] = a /\ unionFind'[a] = 0 - (sizeA + sizeB))
            /\ sizeA < sizeB => (unionFind'[a] = b /\ unionFind'[b] = 0 - (sizeA + sizeB))
            /\ sizeA = sizeB => (unionFind'[a] = b /\ unionFind'[b] = 0 - (sizeA + sizeB))

C18_UnionBySize ==
    [][(VisitStep /\ ~VisitedAtBorder) => UnionEffect]_vars

\* the root of the candidate's cell (left operand) has become the child of
\* the neighbour's root, whose set now has four cells or more
C18_Witness ==
    /\ mazePc = "shuffle" /\ MAZE_SIDE = 3
    /\ lastVisit.called /\ lastVisit.a # lastVisit.b
    /\ unionFind[lastVisit.a] = lastVisit.b
    /\ unionFind[lastVisit.b] <= -4

\* C19: in every state of generation each entry of unionFind is negative, the
\* cell being a root whose negated entry is the size of its set, or a parent
\* index in range from which parents lead to a root without a cycle; the root
\* sizes sum to N^2; and rootOf's path compression keeps every cell's root.
RECURSIVE ReachesRoot(_, _, _)
ReachesRoot(uf, cell, fuel) ==
    \/ uf[cell] < 0
    \/ /\ fuel > 0
       /\ uf[cell] \in DOMAIN uf
       /\ ReachesRoot(uf, uf[cell], fuel - 1)

RECURSIVE SumOver(_, _)
SumOver(f, S) ==
    IF S = {} THEN 0
    ELSE LET x == CHOOSE y \in S : TRUE IN f[x] + SumOver(f, S \ {x})

UnionFindRoots == {i \in Cells : unionFind[i] < 0}

C19_UnionFindWellFormed ==
    mazePc # "start" =>
        /\ DOMAIN unionFind = Cells
        /\ \A i \in Cells : ReachesRoot(unionFind, i, Cardinality(Cells))
        /\ \A i \in UnionFindRoots :
              0 - unionFind[i] =
                  Cardinality({j \in Cells : RootIndex(unionFind, j) = i})
        /\ SumOver(unionFind, UnionFindRoots) = 0 - MAZE_SIDE * MAZE_SIDE
        /\ \A i \in Cells :
              LET compressed == rootOf(unionFind, i)
              IN  \A j \in Cells :
                      /\ ReachesRoot(compressed, j, Cardinality(Cells))
                      /\ RootIndex(compressed, j) = RootIndex(unionFind, j)

\* a chain of two parents exists (a path that rootOf would compress)
C19_Witness ==
    /\ mazePc = "shuffle" /\ MAZE_SIDE = 3
    /\ \E i \in Cells :
          /\ unionFind[i] >= 0
          /\ unionFind[unionFind[i]] >= 0
          /\ rootOf(unionFind, i) # unionFind

\* C20 (as stated): the gate bit of cell HALF is cleared after all candidates
\* have been visited, so it is still set while candidates remain.
C20_GateClearedLast ==
    (mazePc = "shuffle" /\ todo # {}) => HasBit(maze[HALF], BLOCKS_SOUTH)

\* C20 (amended): the gate bit of cell HALF is cleared before the first
\* candidate is visited (it is the first mutation of the maze array) and is
\* clear in every later state; the visits are the last mutations.
C20_GateClearedFirst ==
    /\ (mazePc = "shuffle" /\ lastVisit = NoVisit) =>
            maze = [i \in DOMAIN maze |->
                        IF i = HALF THEN IF MAZE_SIDE = 0 THEN 0 ELSE BLOCKS_WEST
                        ELSE BLOCKS_WEST + BLOCKS_SOUTH]
    /\ mazePc \in {"shuffle", "done"} =>
            (HALF \in DOMAIN maze /\ ~HasBit(maze[HALF], BLOCKS_SOUTH))

C20_Witness ==
    /\ mazePc = "shuffle" /\ MAZE_SIDE = 3
    /\ todo = 1 .. Len(connectionsToCheck)
    /\ ~HasBit(maze[HALF], BLOCKS_SOUTH)

\* ============================================================ usable ranges
AllRanges ==
    {south[j] : j \in DOMAIN south} \cup {west[j] : j \in DOMAIN west}
        \cup {column[j] : j \in DOMAIN column}

\* offset and length (held in units of 1/WT_DEN vertex) are whole numbers of
\* vertices, inside the buffer
RangeUsable(range) ==
    /\ range.offset >= 0
    /\ range.offset % WT_DEN = 0
    /\ range.length > 0
    /\ range.length % WT_DEN = 0
    /\ range.offset + range.length <= Whole(index)

\* C11: for every thickness in (0, 1/2) and every positive detail, every range
\* of south, west and column has a non-negative integer offset and a positive
\* integer length ending inside the buffer, the buffer holds 6 numbers per
\* vertex, and no column is longer than the face it was carved from.
C11_RangesUsable ==
    WallsReturned =>
        /\ \A range \in AllRanges : RangeUsable(range)
        /\ pointsLength = 6 * index
        /\ \A k \in CarvedFaces :
              ColumnOfFace(k).length <= Whole(VerticesOfFace(k))

\* ============================================================== the render
\* how often drawBlock was called with this position and block in the pass
DrawCount(x, y, block) ==
    Cardinality({k \in DOMAIN draws :
                    draws[k] = [x |-> x, y |-> y, block |-> block]})

FramePassed == draws # <<>>

\* C12: in a render pass, for every cell of the maze, at the cell's position:
\* west is drawn (once) iff bit 0 of its mask is set, south (once) iff bit 1
\* is set, and column exactly once whatever the mask.
C12_CellDrawsFollowMask ==
    FramePassed =>
        /\ DOMAIN game.maze = Cells
        /\ \A cell \in Cells :
              LET x == (cell % MAZE_SIDE) - HALF
                  y == (cell \div MAZE_SIDE) - HALF
                  mask == game.maze[cell]
              IN  /\ DrawCount(x, y, "west") = IF mask % 2 = 1 THEN 1 ELSE 0
                  /\ DrawCount(x, y, "south") =
                        IF (mask \div 2) % 2 = 1 THEN 1 ELSE 0
                  /\ DrawCount(x, y, "column") = 1

\* a pass over a maze with a cell of mask 1 (west only) and a cell of mask 0
C12_Witness ==
    /\ FramePassed /\ MAZE_SIDE = 3
    /\ \E c1, c2 \in Cells :
          /\ game.maze[c1] = 1 /\ game.maze[c2] = 0
          /\ DrawCount((c1 % 3) - 1, (c1 \div 3) - 1, "south") = 0
          /\ DrawCount((c2 % 3) - 1, (c2 \div 3) - 1, "column") = 1

\* a draw at grid position (gx, gy), the uniform being the position - HALF
GridDrawCount(gx, gy, block) == DrawCount(gx - HALF, gy - HALF, block)

\* the wall draws (south or west block) at positions outside the N*N grid
OutsideWallDraws ==
    {k \in DOMAIN draws :
        /\ draws[k].block \in {"south", "west"}
        /\ \/ draws[k].x + HALF \notin 0 .. (MAZE_SIDE - 1)
           \/ draws[k].y + HALF \notin 0 .. (MAZE_SIDE - 1)}

\* C13: in a render pass, south and column are each drawn once at every grid
\* position (x, N), x in 0..N-1, west and column each once at every (N, y),
\* y in 0..N-1, and no south or west block is drawn anywhere else outside the
\* grid.  (The corner post at (N, N), a column block, is drawn as well.)
C13_RingClosesPerimeter ==
    FramePassed =>
        /\ \A g \in 0 .. (MAZE_SIDE - 1) :
              /\ GridDrawCount(g, MAZE_SIDE, "south") = 1
              /\ GridDrawCount(g, MAZE_SIDE, "column") = 1
              /\ GridDrawCount(MAZE_SIDE, g, "west") = 1
              /\ GridDrawCount(MAZE_SIDE, g, "column") = 1
        /\ \A k \in OutsideWallDraws :
              \/ /\ draws[k].block = "south"
                 /\ draws[k].y + HALF = MAZE_SIDE
                 /\ draws[k].x + HALF \in 0 .. (MAZE_SIDE - 1)
              \/ /\ draws[k].block = "west"
                 /\ draws[k].x + HALF = MAZE_SIDE
                 /\ draws[k].y + HALF \in 0 .. (MAZE_SIDE - 1)

C13_Witness ==
    /\ FramePassed /\ MAZE_SIDE = 3
    /\ Cardinality(OutsideWallDraws) = 6
    /\ GridDrawCount(0, 3, "south") = 1
    /\ GridDrawCount(3, 2, "west") = 1

\* ============================================================= the startup
\* C14: whenever a frame is requested or a render pass has drawn,
\* makeWallBlocks and makeMaze have returned, and what the pass drew is the
\* pass over the complete maze.
C14_GeneratedBeforeFirstDraw ==
    (rafPending > 0 \/ FramePassed) =>
        /\ WallsReturned
        /\ MazeReturned
        /\ FramePassed => draws = Render([maze |-> maze])

\* the first frame has run
C14_Witness ==
    /\ FramePassed /\ MAZE_SIDE = 3
    /\ game.frame = 2
    /\ runPc = "returned"

\* C15: once run() has returned, no step (runFrame with its render,
\* mousemove, keydown, keyup) changes the maze array or the wall blocks, and
\* game keeps referring to the values makeMaze and makeWallBlocks returned.
C15_MazeAndWallsFrozen ==
    [][runPc = "returned" =>
          /\ maze' = maze
          /\ WallBlocks' = WallBlocks
          /\ game'.maze = maze
          /\ game'.renderInfo.wallBlocks = WallBlocks]_vars

\* frames have run, a key is down, the mouse has turned the player, who has
\* walked
C15_Witness ==
    /\ runPc = "returned" /\ MAZE_SIDE = 3
    /\ game.frame > 2
    /\ "w" \in DOMAIN activeKeys
    /\ game.player.facing > 0
    /\ game.player.pos > 0

\* how often a cleanup made its gl call
CleanupCount(cleanup) ==
    Cardinality({k \in DOMAIN glCalls : glCalls[k] = cleanup})

\* C16: when run() throws, once the exception has left runAndCleanOnError
\* every cleanup registered during the call has run exactly once (the ones
\* not run before are run by then), no resource is left registered, the
\* exception is the one thrown (no game, no frame requested: nothing was
\* retried), and the load handler shows String(error).
C16_CleanupThenPropagate ==
    /\ thrown # NoError => runPc \in {"thrown", "propagated", "failed"}
    /\ runPc \in {"propagated", "failed"} =>
          /\ thrown # NoError
          /\ \A cleanup \in registered : CleanupCount(cleanup) = 1
          /\ DOMAIN ACTIVE_RESOURCES = {}
          /\ activeCleanupStack = <<>>
          /\ game = NoGame
          /\ rafPending = 0
    /\ runPc = "failed" => innerText = StringOf(thrown)
    /\ innerText # <<>> => runPc = "failed"

\* the program did not link: both shaders, the buffer and the program had
\* cleanups registered
C16_Witness ==
    /\ runPc = "failed"
    /\ thrown = E("Code 1003")
    /\ Cardinality(registered) = 4
    /\ Len(glCalls) = 4
    /\ innerText = <<"Error: ", "Code 1003">>

\* ===================================================== border and hallway
\* a candidate whose wall lies on the outer border: south of a row-0 cell or
\* west of a column-0 cell
BorderCandidate(connection) ==
    IF connection % 2 = 1 THEN (connection \div 2) % MAZE_SIDE = 0
    ELSE (connection \div 2) < MAZE_SIDE

CandidateSet == {connectionsToCheck[k] : k \in DOMAIN connectionsToCheck}

\* the two cells unionIfDisconnected was called on in the last visit are
\* neighbours in the grid: the second is directly left of or directly below
\* the first
CalledOnNeighbours ==
    lastVisit.called =>
        LET cell == lastVisit.connection \div 2
            other == IF lastVisit.connection % 2 = 1 THEN cell - 1
                     ELSE cell - MAZE_SIDE
        IN  /\ cell \in Cells /\ other \in Cells
            /\ other # cell
            /\ IF lastVisit.connection % 2 = 1
               THEN other \div MAZE_SIDE = cell \div MAZE_SIDE
               ELSE other % MAZE_SIDE = cell % MAZE_SIDE

\* C21 (as stated): the candidate list holds no south candidate of a row-0
\* cell and no west candidate of a column-0 cell, and unionIfDisconnected is
\* only called on two adjacent cells of the grid.
C21_NoBorderCandidates ==
    mazePc # "start" =>
        /\ \A connection \in CandidateSet : ~BorderCandidate(connection)
        /\ CalledOnNeighbours

\* C21 (amended): the candidate list holds a south candidate for every cell,
\* those of row 0 included, and a west candidate for every cell outside the
\* hallway region, those of column 0 included; the visit of a border
\* candidate calls nothing, so unionIfDisconnected is only called on two
\* adjacent cells of the grid.
C21_BorderCandidatesSkipped ==
    mazePc # "start" =>
        /\ \A i \in Cells : 2 * i \in CandidateSet
        /\ \A i \in Cells :
              (i % MAZE_SIDE = 0 /\ ~InFinalHallway(i)) =>
                  2 * i + 1 \in CandidateSet
        /\ (lastVisit.connection >= 0 /\ BorderCandidate(lastVisit.connection))
              => ~lastVisit.called
        /\ CalledOnNeighbours

\* the west candidate of cell 3 (column 0 of row 1) has just been visited
C21_Witness ==
    /\ mazePc = "shuffle" /\ MAZE_SIDE = 3
    /\ lastVisit.connection = 7
    /\ ~lastVisit.called
    /\ HasBit(maze[3], BLOCKS_WEST)

\* the rows 1 .. min(L, N-1) of the hallway
HallwayRows ==
    1 .. (IF END_HALLWAY_LENGTH < MAZE_SIDE - 1 THEN END_HALLWAY_LENGTH
          ELSE MAZE_SIDE - 1)

\* C27: for every odd side N >= 3, hallway length L >= 1 and shuffle order, in
\* the returned maze every cell (HALF, y), 1 <= y <= min(L, N-1), has its south
\* bit cleared, and below row L the cells of column HALF have no side opening:
\* their west bit and that of their east neighbour are set.
C27_HallwayOpenAndStraight ==
    (MazeReturned /\ ValidSide /\ END_HALLWAY_LENGTH >= 1) =>
        /\ \A y \in HallwayRows :
              ~HasBit(maze[y * MAZE_SIDE + HALF], BLOCKS_SOUTH)
        /\ \A y \in 0 .. (MAZE_SIDE - 1) :
              y < END_HALLWAY_LENGTH =>
                  /\ HasBit(maze[y * MAZE_SIDE + HALF], BLOCKS_WEST)
                  /\ HasBit(maze[y * MAZE_SIDE + HALF + 1], BLOCKS_WEST)

\* side 3, hallway 2: cells 4 and 7 open to the south, cells 1, 2, 4, 5 keep
\* their west wall
C27_Witness ==
    /\ MazeReturned /\ MAZE_SIDE = 3 /\ END_HALLWAY_LENGTH = 2
    /\ ~HasBit(maze[4], BLOCKS_SOUTH) /\ ~HasBit(maze[7], BLOCKS_SOUTH)
    /\ HasBit(maze[4], BLOCKS_WEST) /\ HasBit(maze[5], BLOCKS_WEST)

\* C28: in every returned maze every cell of column 0 has its west bit set
\* and every cell of row 0 other than cell HALF has its south bit set.
C28_BoundaryClosedButGate ==
    MazeReturned =>
        \A i \in Cells :
            /\ i % MAZE_SIDE = 0 => HasBit(maze[i], BLOCKS_WEST)
            /\ (i < MAZE_SIDE /\ i # HALF) => HasBit(maze[i], BLOCKS_SOUTH)

\* side 3 returned: cells 0, 3, 6 closed to the west, cells 0 and 2 to the
\* south, the gate open
C28_Witness ==
    /\ MazeReturned /\ MAZE_SIDE = 3
    /\ HasBit(maze[3], BLOCKS_WEST) /\ HasBit(maze[6], BLOCKS_WEST)
    /\ HasBit(maze[0], BLOCKS_SOUTH) /\ HasBit(maze[2], BLOCKS_SOUTH)
    /\ ~HasBit(maze[1], BLOCKS_SOUTH)

\* ======================================================= column and seam
\* the vertex indices a range draws: those inside [offset, offset + length)
VerticesIn(range) ==
    {v \in 0 .. (index - 1) :
        range.offset <= Whole(v) /\ Whole(v) < range.offset + range.length}

\* C22: for every face on which portionColumn is called the column starts at
\* the face's first vertex, the remainder starts at column offset + column
\* length - 2 and ends at the face's last vertex; column and remainder together
\* cover every vertex of the face, and exactly 2 vertices are in both.
C22_ColumnThenRemainder ==
    WallsReturned =>
        \A k \in CarvedFaces :
            LET col == ColumnOfFace(k)
                rest == SurfaceOfFace(k)
            IN  /\ emitted[k].portioned
                /\ col.offset = Whole(emitted[k].first)
                /\ rest.offset = col.offset + col.length - Whole(2)
                /\ rest.offset + rest.length = Whole(emitted[k].last)
                /\ VerticesIn(col) \cup VerticesIn(rest) =
                      emitted[k].first .. (emitted[k].last - 1)
                /\ Cardinality(VerticesIn(col) \cap VerticesIn(rest)) = 2

\* the front of the south wall at thickness 1/4: column 0..3, remainder 2..9
C22_Witness ==
    /\ WallsReturned /\ SourceWalls
    /\ VerticesIn(ColumnOfFace(1)) = 0 .. 3
    /\ VerticesIn(SurfaceOfFace(1)) = 2 .. 9

\* every range of the three groups, named by its group and place in it
NamedRanges ==
    {<<"south", j>> : j \in DOMAIN south} \cup {<<"west", j>> : j \in DOMAIN west}
        \cup {<<"column", j>> : j \in DOMAIN column}

RangeNamed(name) ==
    IF name[1] = "south" THEN south[name[2]]
    ELSE IF name[1] = "west" THEN west[name[2]]
    ELSE column[name[2]]

\* the triangles of a strip: its triples of consecutive vertices, by the first
TrianglesIn(range) ==
    {v \in VerticesIn(range) : v + 1 \in VerticesIn(range)
                                /\ v + 2 \in VerticesIn(range)}

\* the two names are the column and the remainder of one carved face
ColumnAndRemainder(n1, n2) ==
    \E k \in CarvedFaces :
        /\ n1 = <<"column", Cardinality({i \in 1 .. k : i \in CarvedFaces})>>
        /\ n2 = <<emitted[k].block,
                  Cardinality({i \in 1 .. k : emitted[i].block = emitted[k].block})>>

\* C23: over all ranges of column, south and west no triangle (three
\* consecutive vertices of a strip) is in two ranges, and two ranges have
\* vertices in common only if they are the column and the remainder of one
\* face, and then exactly 2.
C23_NoTriangleTwice ==
    WallsReturned =>
        \A n1, n2 \in NamedRanges :
            n1 # n2 =>
                LET common == VerticesIn(RangeNamed(n1)) \cap VerticesIn(RangeNamed(n2))
                IN  /\ TrianglesIn(RangeNamed(n1)) \cap TrianglesIn(RangeNamed(n2)) = {}
                    /\ common # {} =>
                          /\ ColumnAndRemainder(n1, n2) \/ ColumnAndRemainder(n2, n1)
                          /\ Cardinality(common) = 2

\* thickness 1/4: 13 ranges, the first column has the triangles 0 and 1, the
\* first south range the triangles 2 .. 7
C23_Witness ==
    /\ WallsReturned /\ SourceWalls
    /\ Cardinality(NamedRanges) = 13
    /\ TrianglesIn(column[1]) = {0, 1}
    /\ TrianglesIn(south[1]) = 2 .. 7

\* ============================================================== the frames
\* the step is an invocation of runFrame that got past `if (!game) return`
FrameStep == game # NoGame /\ game'.frame # game.frame

\* C24: runFrame runs only when no handler is running; an invocation takes
\* the one requested callback, adds exactly 1 to game.frame, renders and then
\* requests exactly one callback; at no time is more than one requested.
C24_OneFrameAtATime ==
    [][/\ rafPending' <= 1
       /\ FrameStep =>
             /\ ~HandlerRunning
             /\ rafPending = 1
             /\ rafPending' = 1
             /\ game'.frame = game.frame + 1
             /\ draws' = Render(game')]_vars

\* two frames have run, one callback is requested
C24_Witness ==
    /\ runPc = "returned" /\ MAZE_SIDE = 3
    /\ game.frame = 3
    /\ rafPending = 1
    /\ FramePassed

\* C29: when run() has returned normally out of runAndCleanOnError, no
\* cleanup registered during the call has run, and the three resources
\* allocated inside it are in ACTIVE_RESOURCES, each with its cleanup stack.
C29_NoCleanupOnSuccess ==
    runPc = "returned" =>
        /\ glCalls = <<>>
        /\ Cardinality(registered) = 4
        /\ DOMAIN ACTIVE_RESOURCES =
              {"vertexShader", "fragmentShader", "wallProgram"}
        /\ \A r \in DOMAIN ACTIVE_RESOURCES :
              /\ ACTIVE_RESOURCES[r] # <<>>
              /\ \A j \in DOMAIN ACTIVE_RESOURCES[r] :
                    ACTIVE_RESOURCES[r][j] \in registered

C29_Witness ==
    /\ runPc = "returned"
    /\ ACTIVE_RESOURCES["wallProgram"] =
          <<Cleanup("detachShaders", "wallProgram")>>
    /\ ACTIVE_RESOURCES["vertexShader"] =
          <<Cleanup("deleteShader", "vertexShader")>>
    /\ glCalls = <<>>

\* ===================================================== the cleanup library
\* how many times a cleanup has been called
CallCount(cleanup) ==
    Cardinality({k \in DOMAIN glCalls : glCalls[k] = cleanup})

Warning(resource) == Cleanup("console.warn", resource)

\* the step is a call of release by client code
ReleaseStep == budget'.releases # budget.releases

\* C25: no registered cleanup is ever called twice, and none of a resource
\* still in ACTIVE_RESOURCES has been called; a call of release either
\* finds its resource and removes it, or finds none, and then calls
\* console.warn and nothing else.
C25_CleanupsRunAtMostOnce ==
    [][/\ \A cleanup \in registered' : CallCount(cleanup)' <= 1
       /\ \A r \in DOMAIN ACTIVE_RESOURCES' :
             \A j \in DOMAIN ACTIVE_RESOURCES'[r] :
                CallCount(ACTIVE_RESOURCES[r][j])' = 0
       /\ ReleaseStep =>
             \E r \in Resources :
                \/ /\ r \in DOMAIN ACTIVE_RESOURCES
                   /\ r \notin DOMAIN ACTIVE_RESOURCES'
                \/ /\ r \notin DOMAIN ACTIVE_RESOURCES
                   /\ ACTIVE_RESOURCES' = ACTIVE_RESOURCES
                   /\ glCalls' = Append(glCalls, Warning(r))]_vars

\* resource a was released by client code, which ran its cleanup, and then
\* again by the release closure of the failing call it was allocated in,
\* which only warned
C25_Witness ==
    /\ budget.releases = 1
    /\ callStack = <<>>
    /\ thrown # NoError
    /\ glCalls = <<Cleanup("cleanup", 0), Warning("a")>>

\* the step is a call left by an exception, its stack run by the finally
UnwindStep == Len(callStack') < Len(callStack) /\ thrown' # NoError

\* what the step has added to the call log
Appended == SubSeq(glCalls', Len(glCalls) + 1, Len(glCalls'))

TimesAppended(cleanup) ==
    Cardinality({k \in DOMAIN Appended : Appended[k] = cleanup})

Pos(cleanup) == CHOOSE k \in DOMAIN Appended : Appended[k] = cleanup

IsCall(cleanup) == cleanup.op \in {"cleanup", "throwing"}

\* the calls that running entry i of a stack makes: the entry itself, or,
\* for a release closure that finds its resource (the last one of the stack
\* for that resource), the calls in the stack of the resource
CallsOfEntry(stack, i) ==
    IF IsCall(stack[i]) THEN {stack[i]}
    ELSE IF /\ stack[i].on \in DOMAIN ACTIVE_RESOURCES
            /\ \A k \in DOMAIN stack : k > i => stack[k] # stack[i]
    THEN {c \in {ACTIVE_RESOURCES[stack[i].on][j] :
                    j \in DOMAIN ACTIVE_RESOURCES[stack[i].on]} : IsCall(c)}
    ELSE {}

\* the stacks of the resources that the release closures of a stack name
\* hold calls only, no release closure (as the stacks of run() do)
Flat(stack) ==
    \A i \in DOMAIN stack :
       (stack[i].op = "release" /\ stack[i].on \in DOMAIN ACTIVE_RESOURCES) =>
          \A j \in DOMAIN ACTIVE_RESOURCES[stack[i].on] :
             IsCall(ACTIVE_RESOURCES[stack[i].on][j])

\* C26: when a call is left by an exception, every cleanup of its stack and
\* of the resources its release closures find is called exactly once; what
\* a later entry calls comes before a cleanup registered earlier, and, the
\* resources' stacks holding calls only, before what an earlier release
\* closure calls; the exception of a throwing cleanup goes to console.error,
\* the cleanups after it still run, and the exception that goes on is the
\* one of the code.
C26_ReverseOrderAllRun ==
    [][UnwindStep =>
          LET stack == activeCleanupStack[1]
          IN  /\ \A i \in DOMAIN stack :
                    \A c \in CallsOfEntry(stack, i) : TimesAppended(c) = 1
              /\ \A i \in DOMAIN stack : \A j \in DOMAIN stack :
                    (i < j /\ (IsCall(stack[i]) \/ Flat(stack))) =>
                       \A ci \in CallsOfEntry(stack, i) :
                          \A cj \in CallsOfEntry(stack, j) :
                             Pos(cj) < Pos(ci)
              /\ \A k \in DOMAIN Appended :
                    Appended[k].op = "throwing" =>
                       /\ k + 1 \in DOMAIN Appended
                       /\ Appended[k + 1] =
                             Cleanup("console.error", Appended[k].on)
              /\ thrown' = (IF thrown = NoError THEN E("code") ELSE thrown)]_vars

\* a call that had registered cleanup 0, allocated a resource with the
\* throwing cleanup 1 and registered cleanup 2 was left by an exception
C26_Witness ==
    /\ callStack = <<>>
    /\ thrown = E("code")
    /\ glCalls = <<Cleanup("cleanup", 2), Cleanup("throwing", 1),
                   Cleanup("console.error", 1), Cleanup("cleanup", 0)>>

\* the step is a return or a throw out of the innermost call
LeaveStep == Len(callStack') < Len(callStack)

\* C30: leaving a call of runAndCleanOnError or allocate, by return or by
\* exception, makes the stack that was active before the call the active one
\* again (allocate having pushed the release of its resource on it), null
\* outside every call; onRelease called outside every call throws
\* 'onRelease called outside of allocation' and registers nothing.
C30_ActiveStackRestored ==
    [][/\ LeaveStep =>
             LET top == callStack[Len(callStack)]
             IN  \/ activeCleanupStack' = top.parentStack
                 \/ /\ top.kind = "allocate"
                    /\ top.parentStack # <<>>
                    /\ thrown' = NoError
                    /\ \E r \in Resources :
                          /\ r \notin DOMAIN ACTIVE_RESOURCES
                          /\ activeCleanupStack' =
                                <<Append(top.parentStack[1],
                                         Cleanup("release", r))>>
       /\ callStack' = <<>> => activeCleanupStack' = <<>>
       /\ (callStack = <<>> /\ budget'.cleanups # budget.cleanups) =>
             /\ thrown' = E("onRelease called outside of allocation")
             /\ registered' = registered
             /\ activeCleanupStack' = <<>>
             /\ ACTIVE_RESOURCES' = ACTIVE_RESOURCES
             /\ glCalls' = glCalls]_vars

\* after a nested allocate that returned and a call that threw, onRelease
\* was called outside every call
C30_Witness ==
    /\ callStack = <<>>
    /\ budget.calls >= 2
    /\ "a" \in DOMAIN ACTIVE_RESOURCES
    /\ glCalls # <<>>
    /\ thrown = E("onRelease called outside of allocation")

====
